---- MODULE Spec2Model ----
(***************************************************************************)
(* Model of app.py: the Green Button 5-minute load readings are summed     *)
(* into America/Toronto local hours, the PVWatts 8760-hour generation      *)
(* series is laid on the local hours of 2001 and re-dated to each target   *)
(* year, and the two tables are inner-joined on the UTC epoch.             *)
(*                                                                         *)
(* Time is in seconds.  A naive (zone-less) timestamp is the number of     *)
(* seconds its wall clock reading lies after 1970-01-01 00:00; a zone-     *)
(* aware timestamp is a record [wall, off] of the wall clock reading and   *)
(* the UTC offset in force, so that its instant is wall - off.             *)
(***************************************************************************)
EXTENDS Integers, Sequences, FiniteSets

\* ------------------------------------------------------------------------
\* Civil calendar (proleptic Gregorian), as pandas Timestamp computes it.
\* ------------------------------------------------------------------------
SecPerHour == 3600
SecPerDay == 86400

\* Days from 1970-01-01 to y-m-d.
DaysFromCivil(y, m, d) ==
    LET yy  == IF m <= 2 THEN y - 1 ELSE y
        era == yy \div 400
        yoe == yy - era * 400
        mp  == IF m > 2 THEN m - 3 ELSE m + 9
        doy == (153 * mp + 2) \div 5 + d - 1
        doe == yoe * 365 + yoe \div 4 - yoe \div 100 + doy
    IN  era * 146097 + doe - 719468

\* <<year, month, day>> of the day number z.
CivilFromDays(z) ==
    LET zz  == z + 719468
        era == zz \div 146097
        doe == zz - era * 146097
        yoe == (doe - doe \div 1460 + doe \div 36524 - doe \div 146096) \div 365
        doy == doe - (365 * yoe + yoe \div 4 - yoe \div 100)
        mp  == (5 * doy + 2) \div 153
        d   == doy - (153 * mp + 2) \div 5 + 1
        m   == IF mp < 10 THEN mp + 3 ELSE mp - 9
        y   == yoe + era * 400 + (IF m <= 2 THEN 1 ELSE 0)
    IN  <<y, m, d>>

\* 0 = Sunday ... 6 = Saturday (1970-01-01 was a Thursday).
Weekday(z) == (z + 4) % 7

IsLeap(y) == (y % 4 = 0 /\ y % 100 # 0) \/ y % 400 = 0

\* Fields of a naive timestamp.
YearOf(w)  == CivilFromDays(w \div SecPerDay)[1]
MonthOf(w) == CivilFromDays(w \div SecPerDay)[2]
DayOf(w)   == CivilFromDays(w \div SecPerDay)[3]
HourOf(w)  == (w % SecPerDay) \div SecPerHour
DateOf(w)  == w \div SecPerDay

\* The naive timestamp y-m-d h:00:00.
Naive(y, m, d, h) == DaysFromCivil(y, m, d) * SecPerDay + h * SecPerHour

\* ------------------------------------------------------------------------
\* Zone America/Toronto (tz database, rule set Canada, in force since 1974):
\* standard time UTC-5, daylight time UTC-4, both transitions at 02:00 wall.
\* ------------------------------------------------------------------------
StdOff == 0 - 18000
DstOff == 0 - 14400

\* First Sunday on or after the day z / last Sunday on or before it.
SundayOnOrAfter(z)  == z + ((7 - Weekday(z)) % 7)
SundayOnOrBefore(z) == z - Weekday(z)

\* Day of the spring-forward transition of year y.
DstStartDay(y) ==
    IF y >= 2007 THEN SundayOnOrAfter(DaysFromCivil(y, 3, 8))
    ELSE IF y >= 1987 THEN SundayOnOrAfter(DaysFromCivil(y, 4, 1))
    ELSE SundayOnOrBefore(DaysFromCivil(y, 4, 30))

\* Day of the fall-back transition of year y.
DstEndDay(y) ==
    IF y >= 2007 THEN SundayOnOrAfter(DaysFromCivil(y, 11, 1))
    ELSE SundayOnOrBefore(DaysFromCivil(y, 10, 31))

\* The skipped wall hour [GapStart, GapStart + 3600) and the repeated wall
\* hour [AmbStart, AmbStart + 3600) of year y, as naive timestamps.
GapStart(y) == DstStartDay(y) * SecPerDay + 2 * SecPerHour
AmbStart(y) == DstEndDay(y) * SecPerDay + 1 * SecPerHour

\* The instants of the two transitions: daylight time begins where the
\* skipped hour would start in standard time, and standard time begins with
\* the second pass of the repeated hour.
DstStartUtc(y) == GapStart(y) - StdOff
DstEndUtc(y)   == AmbStart(y) - StdOff

\* UTC offset in force at the instant e.
UtcOffset(e) ==
    LET y == YearOf(e)
    IN  IF DstStartUtc(y) <= e /\ e < DstEndUtc(y) THEN DstOff ELSE StdOff

IsNonexistent(w) ==
    LET g == GapStart(YearOf(w)) IN g <= w /\ w < g + SecPerHour

IsAmbiguous(w) ==
    LET a == AmbStart(YearOf(w)) IN a <= w /\ w < a + SecPerHour

\* Offset of a wall reading that is neither skipped nor repeated.
PlainOffset(w) ==
    LET y == YearOf(w)
    IN  IF GapStart(y) + SecPerHour <= w /\ w < AmbStart(y)
        THEN DstOff ELSE StdOff


\* ------------------------------------------------------------------------
\* pandas operations on timestamps used by app.py.
\* ------------------------------------------------------------------------

\* pd.to_datetime(epoch, unit="s", utc=True).dt.tz_convert("America/Toronto")
tz_convert_toronto(e) == [wall |-> e + UtcOffset(e), off |-> UtcOffset(e)]

\* Variant of epoch_of that reads the wall clock value as if it were UTC.
epoch_of_wall_as_utc(t) == t.wall

\* .dt.tz_convert("UTC").view("int64") // 10**9 : the instant, in seconds.
epoch_of(t) == t.wall - t.off

\* Variant of floor_H that floors in standard time all year round.
floor_H_fixed_offset(t) ==
    LET e == t.wall - t.off
    IN  [ok |-> TRUE, err |-> "", wall |-> (e - (e % SecPerHour)) + StdOff, off |-> StdOff]

\* Series.dt.floor("H") of a zone-aware value: pandas drops the zone, floors
\* the wall clock reading, and localizes the result again with its defaults
\* ambiguous="raise", nonexistent="raise".
floor_H(t) ==
    LET fl == t.wall - (t.wall % SecPerHour)
    IN  IF IsAmbiguous(fl) THEN [ok |-> FALSE, err |-> "AmbiguousTimeError", wall |-> fl, off |-> 0]
        ELSE IF IsNonexistent(fl) THEN [ok |-> FALSE, err |-> "NonExistentTimeError", wall |-> fl, off |-> 0]
        ELSE [ok |-> TRUE, err |-> "", wall |-> fl, off |-> PlainOffset(fl)]

\* Timestamp.replace(year=y) of a naive timestamp (the reference year has no
\* February 29, so the replacement always names a date of year y).
replace_year(w, y) == Naive(y, MonthOf(w), DayOf(w), 0) + (w % SecPerDay)

\* ------------------------------------------------------------------------
\* parse_alectra_xml_hourly
\* ------------------------------------------------------------------------
ReadingInterval == 300

\* An IntervalBlock of the uploaded file: n consecutive readings starting at
\* `first`, each of `value` Wh.  recs holds one entry per reading.
RecsOfBlock(b) ==
    {[epoch_5min |-> b.first + ReadingInterval * (k - 1), load_Wh |-> b.value] : k \in 1..b.n}

Recs(file) == UNION {RecsOfBlock(b) : b \in file}

\* df5["toronto_hour"] of one reading.
toronto_hour(r) == floor_H(tz_convert_toronto(r.epoch_5min))

RECURSIVE SumWh(_)
SumWh(S) ==
    IF S = {} THEN 0
    ELSE LET r == CHOOSE x \in S : TRUE IN r.load_Wh + SumWh(S \ {r})

\* The rows of a set with distinct epochs, ascending by epoch: the row in
\* place n is the one with n - 1 rows before it.
SortByEpoch(S) ==
    [n \in 1..Cardinality(S) |->
        CHOOSE r \in S : Cardinality({q \in S : q.epoch < r.epoch}) = n - 1]

\* groupby("toronto_hour").sum(), then the epoch of each hour start.  The
\* load is kept in Wh (load kWh times 1000).
HourlyRows(recs) ==
    LET keyed == {[r |-> r, h |-> toronto_hour(r)] : r \in recs}
        hours == {k.h : k \in keyed}
    IN  SortByEpoch({[epoch |-> epoch_of(h),
                      time  |-> [wall |-> h.wall, off |-> h.off],
                      load  |-> SumWh({k.r : k \in {x \in keyed : x.h = h}})] : h \in hours})

\* The result of the call: the hourly frame, or the exception it raises.
parse_alectra_xml_hourly(file) ==
    LET recs == Recs(file)
        bad  == {r \in recs : ~toronto_hour(r).ok}
    IN  IF recs = {} THEN [ok |-> TRUE, err |-> "", rows |-> <<>>]
        ELSE IF bad # {}
        THEN [ok |-> FALSE, err |-> (CHOOSE e \in {toronto_hour(r).err : r \in bad} : TRUE), rows |-> <<>>]
        ELSE [ok |-> TRUE, err |-> "", rows |-> HourlyRows(recs)]

\* ------------------------------------------------------------------------
\* pvwatts_hourly_with_epoch
\* ------------------------------------------------------------------------
ReferenceYear == 2001
HoursPerYear == 8760

\* The i-th value of outputs["ac"]: the series is arbitrary, so each entry is
\* taken to be its own index, which keeps distinct entries distinguishable.
ac_kWh(i) == i

\* pd.date_range("2001-01-01", periods=8760, freq="H", tz="America/Toronto"):
\* the localized start, then one instant per hour.
BaseStart == Naive(ReferenceYear, 1, 1, 0) - PlainOffset(Naive(ReferenceYear, 1, 1, 0))

\* Variant of toronto_time_base that lays the 8760 hours on the wall clock
\* (a zone-less date_range) instead of on the instants.
toronto_time_base_wall_clock(i) ==
    [wall |-> Naive(ReferenceYear, 1, 1, 0) + SecPerHour * (i - 1), off |-> StdOff]

toronto_time_base(i) == tz_convert_toronto(BaseStart + SecPerHour * (i - 1))

\* base["local_naive"]: the wall clock readings of the 8760 template hours.
local_naive == SubSeq([i \in 1..HoursPerYear |-> toronto_time_base(i).wall], 1, HoursPerYear)

\* dfy["local_naive_year"] for one target year.
local_naive_year(y) == [i \in 1..HoursPerYear |-> replace_year(local_naive[i], y)]

\* tz_localize(..., ambiguous="infer"): the positions holding a repeated wall
\* hour, and the positions at which the wall clock does not advance (the
\* switch from the first to the second pass).
AmbiguousIdx(col) == {i \in 1..HoursPerYear : IsAmbiguous(col[i])}

SwitchIdx(col) ==
    {i \in AmbiguousIdx(col) : i + 1 \in AmbiguousIdx(col) /\ col[i + 1] <= col[i]}

\* "infer" raises AmbiguousTimeError when a repeated wall hour is present
\* without exactly one such switch (in particular when it occurs only once).
InferRaises(col) == AmbiguousIdx(col) # {} /\ Cardinality(SwitchIdx(col)) # 1

\* The localized value of position i: a nonexistent hour is shifted forward
\* to the first valid instant, a repeated hour takes daylight time up to the
\* switch and standard time after it.
localize_infer_shift(col, i) ==
    LET w == col[i]
    IN  IF IsNonexistent(w)
        THEN [wall |-> GapStart(YearOf(w)) + SecPerHour, off |-> DstOff]
        ELSE IF IsAmbiguous(w)
        THEN [wall |-> w, off |-> IF \E s \in SwitchIdx(col) : i <= s THEN DstOff ELSE StdOff]
        ELSE [wall |-> w, off |-> PlainOffset(w)]


\* ------------------------------------------------------------------------
\* Inputs of a run.
\* ------------------------------------------------------------------------
MaxBlocks == 2
MaxSpan == 1

\* Start years offered for the "Year range" text input, and the years any
\* range start..start+span can hold.
YearChoices == {1984, 1990, 2001, 2023, 2024}

YearsInPlay == {y + k : y \in YearChoices, k \in 0..MaxSpan}

FirstYear == CHOOSE y \in YearsInPlay : \A z \in YearsInPlay : y <= z

LastYear == CHOOSE y \in YearsInPlay : \A z \in YearsInPlay : y >= z

\* The instant of the wall clock reading y-m-d h:00 under the offset off.
At(y, m, d, h, off) == Naive(y, m, d, h) - off

\* IntervalBlocks a file may hold: the whole spring-forward day of 2001, the
\* two passes of its repeated hour, ordinary hours, the hour after the 1984
\* skipped hour, the days around February 29 1984, and both passes of the
\* repeated hour of 2023 in one block.
BlockChoices ==
    { [first |-> At(2001, 4, 1, 0, StdOff),   n |-> 276, value |-> 1],
      [first |-> At(2001, 10, 28, 1, DstOff), n |-> 12,  value |-> 4],
      [first |-> At(2001, 10, 28, 1, StdOff), n |-> 12,  value |-> 5],
      [first |-> At(2001, 6, 15, 12, DstOff), n |-> 3,   value |-> 2],
      [first |-> At(2001, 4, 29, 3, DstOff),  n |-> 1,   value |-> 6],
      [first |-> At(1984, 4, 29, 3, DstOff),  n |-> 1,   value |-> 7],
      [first |-> At(1984, 2, 29, 12, StdOff), n |-> 2,   value |-> 3],
      [first |-> At(1984, 2, 28, 12, StdOff), n |-> 1,   value |-> 8],
      [first |-> At(1984, 3, 1, 12, StdOff),  n |-> 1,   value |-> 9],
      [first |-> At(2023, 11, 5, 1, DstOff),  n |-> 24,  value |-> 1] }

Files == {f \in SUBSET BlockChoices : Cardinality(f) <= MaxBlocks}

\* Lengths the "ac" series of the PVWatts response may have.
AcLengths == {HoursPerYear - 1, HoursPerYear, HoursPerYear + 1}

\* ------------------------------------------------------------------------
\* The piece of one target year (the body of the for loop): whether
\* tz_localize raises, and otherwise the epoch column of the 8760 rows.
\* Row i of the piece carries ac_kWh(i).
\* ------------------------------------------------------------------------
PieceOf(y) ==
    LET col == SubSeq(local_naive_year(y), 1, HoursPerYear)
        bad == InferRaises(col)
    IN  [raises |-> bad,
         epoch  |-> IF bad THEN <<>>
                    ELSE SubSeq([i \in 1..HoursPerYear |-> epoch_of(localize_infer_shift(col, i))],
                                1, HoursPerYear)]

\* The pieces of all years in play, computed once.
pv_pieces ==
    SubSeq([k \in 1..(LastYear - FirstYear + 1) |->
               IF (FirstYear + k - 1) \in YearsInPlay
               THEN PieceOf(FirstYear + k - 1)
               ELSE [raises |-> TRUE, epoch |-> <<>>]],
           1, LastYear - FirstYear + 1)

piece(y) == pv_pieces[y - FirstYear + 1]

\* The years start_year..end_year, in loop order.
YearRange(s, e) == [k \in 1..(e - s + 1) |-> s + k - 1]

\* ------------------------------------------------------------------------
\* Merge on epoch (inner), net load, column selection and sort.
\* ------------------------------------------------------------------------
\* pd.merge(load_hourly, pv_hourly, on="epoch", how="inner") pairs load row n
\* with row i of piece k whenever their epochs are equal.
MergePairs(load, years) ==
    {t \in (1..Len(load)) \X (1..Len(years)) \X (1..HoursPerYear) :
        piece(years[t[2]]).epoch[t[3]] = load[t[1]].epoch}

\* Order of the merged rows: left order first, then the order of pv_hourly.
PairBefore(a, b) ==
    \/ a[1] < b[1]
    \/ a[1] = b[1] /\ a[2] < b[2]
    \/ a[1] = b[1] /\ a[2] = b[2] /\ a[3] < b[3]

\* The merged row of one pair, with the net load.  gen is in kWh, load and
\* net in Wh.
MergedRow(l, i) ==
    [epoch |-> l.epoch, time |-> l.time, load |-> l.load,
     gen |-> ac_kWh(i), net |-> l.load - 1000 * ac_kWh(i)]

\* The p-th pair in that order.
PairAt(pairs, p) ==
    CHOOSE x \in pairs : Cardinality({u \in pairs : PairBefore(u, x)}) = p - 1

MergedRows(load, pairs) ==
    [p \in 1..Cardinality(pairs) |->
        MergedRow(load[PairAt(pairs, p)[1]], PairAt(pairs, p)[3])]

InnerMerge(load, years) == MergedRows(load, MergePairs(load, years))

\* sort_values("epoch"): ascending.  Rows of equal epoch are kept in merge
\* order; no property below depends on the order of rows of equal epoch.
sort_values_epoch(rows) ==
    [p \in 1..Len(rows) |->
        rows[CHOOSE a \in 1..Len(rows) :
                Cardinality({b \in 1..Len(rows) :
                    \/ rows[b].epoch < rows[a].epoch
                    \/ rows[b].epoch = rows[a].epoch /\ b < a}) = p - 1]]

\* ------------------------------------------------------------------------
\* The run of the "generate" button: one step per numbered stage.
\* ------------------------------------------------------------------------
VARIABLES
    pc,            \* position in the script
    uploaded_file, \* the IntervalBlocks of the uploaded XML
    load_hourly,   \* result of parse_alectra_xml_hourly
    start_year,
    end_year,
    ac_len,        \* length of outputs["ac"]
    pv_hourly,     \* the target years whose pieces were concatenated
    out_df,        \* merged, renamed, selected and sorted rows
    download,      \* rows offered by st.download_button
    has_download,  \* whether the download button was rendered
    error,         \* message shown by st.error, "" if none
    probe,         \* template inspection: a wall clock hour of the reference year
    probe_rows     \* template inspection: rows of base on that hour, -1 before counting

vars == <<pc, uploaded_file, load_hourly, start_year, end_year, ac_len,
          pv_hourly, out_df, download, has_download, error, probe, probe_rows>>

Init ==
    /\ pc = "idle"
    /\ uploaded_file = {}
    /\ load_hourly = <<>>
    /\ start_year = 0
    /\ end_year = 0
    /\ ac_len = 0
    /\ pv_hourly = <<>>
    /\ out_df = <<>>
    /\ download = <<>>
    /\ has_download = FALSE
    /\ error = ""
    /\ probe = 0
    /\ probe_rows = 0 - 1

\* The classes `except Exception` catches: every exception the stages raise.
CaughtByHandler(e) == e \in {"ValueError", "AmbiguousTimeError", "NonExistentTimeError"}

\* Where the script is after exception e is raised inside the try block.
AfterRaise(e) == IF CaughtByHandler(e) THEN "error" ELSE "crashed"

\* st.file_uploader receives a file.
Upload ==
    /\ pc = "idle"
    /\ \E f \in Files : f # {} /\ uploaded_file' = f
    /\ pc' = "uploaded"
    /\ UNCHANGED <<load_hourly, start_year, end_year, ac_len, pv_hourly,
                   out_df, download, has_download, error, probe, probe_rows>>

\* Button pressed, stage 1: the load per local hour.
Parse ==
    /\ pc = "uploaded"
    /\ LET res == parse_alectra_xml_hourly(uploaded_file)
       IN  IF res.ok
           THEN /\ load_hourly' = res.rows
                /\ pc' = "parsed"
                /\ error' = error
           ELSE /\ load_hourly' = load_hourly
                /\ pc' = AfterRaise(res.err)
                /\ error' = res.err
    /\ UNCHANGED <<uploaded_file, start_year, end_year, ac_len, pv_hourly,
                   out_df, download, has_download, probe, probe_rows>>

\* Stage 2: the year range typed in the sidebar.
ParseYears ==
    /\ pc = "parsed"
    /\ \E s \in YearChoices, k \in 0..MaxSpan :
          /\ start_year' = s
          /\ end_year' = s + k
    /\ pc' = "years"
    /\ UNCHANGED <<uploaded_file, load_hourly, ac_len, pv_hourly, out_df,
                   download, has_download, error, probe, probe_rows>>

\* Variant of Project whose frame constructor accepts a series of any length.
ProjectAnyLength ==
    /\ pc = "years"
    /\ \E n \in AcLengths :
          /\ ac_len' = n
          /\ IF \E y \in start_year..end_year : piece(y).raises
             THEN /\ pc' = AfterRaise("AmbiguousTimeError")
                  /\ error' = "AmbiguousTimeError"
                  /\ pv_hourly' = pv_hourly
             ELSE /\ pc' = "projected"
                  /\ error' = error
                  /\ pv_hourly' = YearRange(start_year, end_year)
    /\ UNCHANGED <<uploaded_file, load_hourly, start_year, end_year, out_df,
                   download, has_download, probe, probe_rows>>

\* Stage 3: pvwatts_hourly_with_epoch.  The DataFrame constructor raises
\* ValueError unless "ac" has as many entries as the 8760-hour index; the
\* loop raises as soon as one year's tz_localize raises.
Project ==
    /\ pc = "years"
    /\ \E n \in AcLengths :
          /\ ac_len' = n
          /\ IF n # HoursPerYear
             THEN /\ pc' = AfterRaise("ValueError")
                  /\ error' = "ValueError"
                  /\ pv_hourly' = pv_hourly
             ELSE IF \E y \in start_year..end_year : piece(y).raises
             THEN /\ pc' = AfterRaise("AmbiguousTimeError")
                  /\ error' = "AmbiguousTimeError"
                  /\ pv_hourly' = pv_hourly
             ELSE /\ pc' = "projected"
                  /\ error' = error
                  /\ pv_hourly' = YearRange(start_year, end_year)
    /\ UNCHANGED <<uploaded_file, load_hourly, start_year, end_year, out_df,
                   download, has_download, probe, probe_rows>>

\* Stages 4 to 6: merge on epoch, net load, the five columns, sort.
Merge ==
    /\ pc = "projected"
    /\ out_df' = sort_values_epoch(InnerMerge(load_hourly, pv_hourly))
    /\ pc' = "merged"
    /\ UNCHANGED <<uploaded_file, load_hourly, start_year, end_year, ac_len,
                   pv_hourly, download, has_download, error, probe, probe_rows>>

\* Stage 7: the CSV goes to the download button.
Export ==
    /\ pc = "merged"
    /\ download' = out_df
    /\ has_download' = TRUE
    /\ pc' = "exported"
    /\ UNCHANGED <<uploaded_file, load_hourly, start_year, end_year, ac_len,
                   pv_hourly, out_df, error, probe, probe_rows>>

Next == Upload \/ Parse \/ ParseYears \/ Project \/ Merge \/ Export

Spec == Init /\ [][Next]_vars

\* ------------------------------------------------------------------------
\* Inspection of the reference-year template: each wall clock hour of the
\* 365-day calendar of 2001 is looked up in base["local_naive"].
\* ------------------------------------------------------------------------
InitTemplate ==
    /\ pc = "template"
    /\ uploaded_file = {}
    /\ load_hourly = <<>>
    /\ start_year = 0
    /\ end_year = 0
    /\ ac_len = HoursPerYear
    /\ pv_hourly = <<>>
    /\ out_df = <<>>
    /\ download = <<>>
    /\ has_download = FALSE
    /\ error = ""
    /\ probe \in {Naive(ReferenceYear, 1, 1, 0) + SecPerHour * k : k \in 0..(HoursPerYear - 1)}
    /\ probe_rows = 0 - 1

\* Rows of the template that carry the wall clock hour w.
TemplateRows(w) == {i \in 1..HoursPerYear : local_naive[i] = w}

CountTemplateRows ==
    /\ pc = "template"
    /\ probe_rows = 0 - 1
    /\ probe_rows' = Cardinality(TemplateRows(probe))
    /\ UNCHANGED <<pc, uploaded_file, load_hourly, start_year, end_year, ac_len,
                   pv_hourly, out_df, download, has_download, error, probe>>

SpecTemplate == InitTemplate /\ [][CountTemplateRows]_vars

\* ------------------------------------------------------------------------
\* Vocabulary of the properties.
\* ------------------------------------------------------------------------

\* parse_alectra_xml_hourly has returned its frame (a run that ends in the
\* handler before the year range is read ended inside the parser).
ParseReturned ==
    \/ pc \in {"parsed", "years", "projected", "merged", "exported"}
    \/ pc = "error" /\ start_year # 0

\* pvwatts_hourly_with_epoch was called with a series of 8760 entries.
ProjectionAttempted ==
    pc \in {"projected", "merged", "exported", "error"} /\ ac_len = HoursPerYear

Merged == pc \in {"merged", "exported"}

\* The file holds a reading that starts at the instant e.
HasReadingAt(e) ==
    \E b \in uploaded_file :
        /\ e >= b.first
        /\ (e - b.first) % ReadingInterval = 0
        /\ (e - b.first) \div ReadingInterval < b.n

\* Readings of the file that start in [lo, hi).
ReadingsIn(lo, hi) ==
    {r \in Recs(uploaded_file) : lo <= r.epoch_5min /\ r.epoch_5min < hi}

\* Local calendar years the file touches.
FileYears == {YearOf(b.first + StdOff) : b \in uploaded_file}

\* Buckets of load_hourly labelled with the wall clock hour w, and with the
\* local date z.
BucketsAt(w) == {n \in 1..Len(load_hourly) : load_hourly[n].time.wall = w}

BucketsOn(z) == {n \in 1..Len(load_hourly) : DateOf(load_hourly[n].time.wall) = z}

\* Calendar key (month, day, hour, occurrence) of a zone-aware local hour:
\* occurrence 2 is the second (standard time) pass of a repeated hour.
KeyOf(t) ==
    <<MonthOf(t.wall), DayOf(t.wall), HourOf(t.wall),
      IF IsAmbiguous(t.wall) /\ t.off = StdOff THEN 2 ELSE 1>>

\* (month, day, hour) of each template row.
template_labels ==
    SubSeq([i \in 1..HoursPerYear |->
               <<MonthOf(local_naive[i]), DayOf(local_naive[i]), HourOf(local_naive[i])>>],
           1, HoursPerYear)

\* The template value of a calendar key: the generation of the occ-th row,
\* in time order, that carries the label (no value if there is no such row).
TemplateEntry(key) ==
    LET rows == {i \in 1..HoursPerYear : template_labels[i] = <<key[1], key[2], key[3]>>}
    IN  {ac_kWh(i) : i \in {r \in rows : Cardinality({j \in rows : j < r}) = key[4] - 1}}

\* The file holds a reading for every 5-minute interval of the 23-hour
\* spring-forward date of year y.
CoversSpringForwardDate(y) ==
    \A k \in 0..(23 * 12 - 1) :
        HasReadingAt(DstStartDay(y) * SecPerDay - StdOff + ReadingInterval * k)

\* The wall clock reading w lies on a transition date of its year.
OnTransitionDate(w) ==
    DateOf(w) \in {DstStartDay(YearOf(w)), DstEndDay(YearOf(w))}

OnFeb29(w) == MonthOf(w) = 2 /\ DayOf(w) = 29

\* Target years of the run that are leap years.
LeapTargets == {y \in start_year..end_year : IsLeap(y)}

\* ------------------------------------------------------------------------
\* Properties.
\* ------------------------------------------------------------------------

\* C1: when the file holds readings in both passes of the repeated hour
\* 01:00 of a fall-back date, the aggregation has exactly two buckets with
\* that label, the earlier summing the readings before the transition and the
\* later those after it, 3600 seconds apart, and no other label of that year
\* has two buckets.
C1_FallBackHourHasTwoBuckets ==
    \A y \in FileYears :
        LET pre  == ReadingsIn(DstEndUtc(y) - SecPerHour, DstEndUtc(y))
            post == ReadingsIn(DstEndUtc(y), DstEndUtc(y) + SecPerHour)
        IN  (pc \notin {"idle", "uploaded"} /\ pre # {} /\ post # {}) =>
               /\ Cardinality(BucketsAt(AmbStart(y))) = 2
               /\ \E a, b \in BucketsAt(AmbStart(y)) :
                     /\ a < b
                     /\ load_hourly[a].load = SumWh(pre)
                     /\ load_hourly[b].load = SumWh(post)
                     /\ load_hourly[b].epoch - load_hourly[a].epoch = SecPerHour
               /\ \A n, m \in 1..Len(load_hourly) :
                     (/\ n # m
                      /\ load_hourly[n].time.wall = load_hourly[m].time.wall
                      /\ YearOf(load_hourly[n].time.wall) = y)
                     => load_hourly[n].time.wall = AmbStart(y)

\* C2: the generation of every merged record is the template entry of the
\* calendar key (month, day, hour, occurrence) of its load bucket, so records
\* with equal keys carry equal generation whatever their year.
C2_GenerationFollowsCalendarKey ==
    Merged =>
        /\ \A p \in 1..Len(out_df) : out_df[p].gen \in TemplateEntry(KeyOf(out_df[p].time))
        /\ \A p, q \in 1..Len(out_df) :
              KeyOf(out_df[p].time) = KeyOf(out_df[q].time) => out_df[p].gen = out_df[q].gen

\* C3: for every target year of the range the projection completes, the
\* repeated hour of that year gets two rows 3600 seconds apart, its skipped
\* hour gets no row, and no two rows fall on the same instant.
C3_ProjectionFollowsTargetYear ==
    ProjectionAttempted =>
        /\ pc # "error"
        /\ \A y \in start_year..end_year :
              /\ Cardinality({i \in 1..HoursPerYear : piece(y).epoch[i] = DstEndUtc(y) - SecPerHour}) = 1
              /\ Cardinality({i \in 1..HoursPerYear : piece(y).epoch[i] = DstEndUtc(y)}) = 1
              /\ \A i \in 1..HoursPerYear : ~IsNonexistent(replace_year(local_naive[i], y))
              /\ \A i \in 1..(HoursPerYear - 1) : piece(y).epoch[i] < piece(y).epoch[i + 1]

C6_TemplateLabelCounts ==
    (pc = "template" /\ probe_rows >= 0) =>
        probe_rows = IF probe = AmbStart(ReferenceYear) THEN 2
                     ELSE IF probe = GapStart(ReferenceYear) THEN 0
                     ELSE 1

C6_Witness ==
    pc = "template" /\ probe = AmbStart(ReferenceYear) /\ probe_rows = 2

\* C7: a run that offers a download accounts for every load bucket; the
\* script reports no count of unmapped buckets, so every bucket has to be in
\* the series.
C7_EveryBucketAccountedFor ==
    has_download =>
        \A n \in 1..Len(load_hourly) :
            \E p \in 1..Len(download) : download[p].epoch = load_hourly[n].epoch

\* C8: a generation series whose length is not 8760 ends the run in the
\* error handler with ValueError, before any projection or merge and with
\* no download, and nothing more can run.
C8_WrongLengthIsFatal ==
    (ac_len # 0 /\ ac_len # HoursPerYear) =>
        /\ pc = "error"
        /\ error = "ValueError"
        /\ pv_hourly = <<>>
        /\ out_df = <<>>
        /\ ~has_download
        /\ ~ENABLED Next

C8_Witness ==
    ac_len = HoursPerYear + 1 /\ pc = "error" /\ error = "ValueError"

\* C9: the epochs of the output series are strictly increasing, so no load
\* bucket appears twice.
C9_OutputEpochsStrictlyIncreasing ==
    Merged =>
        \A p \in 1..(Len(out_df) - 1) : out_df[p].epoch < out_df[p + 1].epoch

\* C10: for a leap target year the projection yields 8760 rows, none on
\* February 29, so load buckets of February 29 are absent from the output
\* while those of February 28 and March 1 carry their own template values.
C10_LeapYearDropsOnlyFeb29 ==
    (ProjectionAttempted /\ LeapTargets # {}) =>
        /\ pc # "error"
        /\ \A y \in LeapTargets :
              /\ Len(piece(y).epoch) = HoursPerYear
              /\ \A i \in 1..HoursPerYear : ~OnFeb29(replace_year(local_naive[i], y))
        /\ Merged =>
              \A n \in 1..Len(load_hourly) :
                 LET w    == load_hourly[n].time.wall
                     rows == {p \in 1..Len(out_df) : out_df[p].epoch = load_hourly[n].epoch}
                 IN  YearOf(w) \in LeapTargets =>
                        /\ OnFeb29(w) => rows = {}
                        /\ <<MonthOf(w), DayOf(w)>> \in {<<2, 28>>, <<3, 1>>} =>
                              /\ rows # {}
                              /\ \A p \in rows :
                                    out_df[p].gen \in TemplateEntry(KeyOf(load_hourly[n].time))
====
